---- MODULE Spec2Model ----
(***************************************************************************)
(* Model of analyze_tips.py: _to_bool_smoker and compare_avg_tip_by_smoker. *)
(*                                                                         *)
(* Python values are tagged records:                                       *)
(*   None, BoolV(b), IntV(n), StrV(<<chars>>), FloatV(n, d) (the exact     *)
(*   rational n/d), NaN (the float nan).                                   *)
(* Strings are sequences of one-character strings so that strip(),         *)
(* lower() and float() are computed character by character.  Floats are   *)
(* exact rationals: statistics.mean sums exactly, and the rounding of the   *)
(* one subtraction of line 109 is not modelled.                            *)
(***************************************************************************)
EXTENDS Integers, Sequences, FiniteSets, TLC

(* ---------------------------- bounds ----------------------------------- *)
\* longest input collection explored (besides the __main__ sample)
MaxLen == 3
\* longest padding of white space put around a token
MaxPad == 1

(* ------------------------- Python values ------------------------------- *)
None == [t |-> "none"]
BoolV(b) == [t |-> "bool", b |-> b]
IntV(n) == [t |-> "int", n |-> n]
StrV(s) == [t |-> "str", s |-> s]
NaN == [t |-> "nan"]

Abs(n) == IF n < 0 THEN -n ELSE n

RECURSIVE GCD(_, _)
GCD(a, b) == IF b = 0 THEN a ELSE GCD(b, a % b)

\* a rational in lowest terms with a positive denominator
Norm(n, d) ==
  LET g == GCD(Abs(n), Abs(d))
      sg == IF d < 0 THEN -1 ELSE 1
  IN  <<sg * (n \div g), sg * (d \div g)>>

FloatV(n, d) == [t |-> "float", q |-> Norm(n, d)]

IsNone(v) == v.t = "none"
IsNum(v) == v.t = "float"
IsNaN(v) == v.t = "nan"

(* --------------------------- characters -------------------------------- *)
UpperChars == <<"A","B","C","D","E","F","G","H","I","J","K","L","M",
                "N","O","P","Q","R","S","T","U","V","W","X","Y","Z">>
LowerChars == <<"a","b","c","d","e","f","g","h","i","j","k","l","m",
                "n","o","p","q","r","s","t","u","v","w","x","y","z">>
DigitChars == <<"0","1","2","3","4","5","6","7","8","9">>
Whitespace == {" ", "\t", "\n"}

IsDigit(c) == \E i \in 1..10 : DigitChars[i] = c
DigitVal(c) == (CHOOSE i \in 1..10 : DigitChars[i] = c) - 1

\* str.lower() on one character
LowerChar(c) ==
  IF \E i \in 1..26 : UpperChars[i] = c
    THEN LowerChars[CHOOSE i \in 1..26 : UpperChars[i] = c]
    ELSE c

\* str.lower()
PyLower(s) == [i \in 1..Len(s) |-> LowerChar(s[i])]

RECURSIVE LStrip(_)
LStrip(s) ==
  IF s # <<>> /\ Head(s) \in Whitespace THEN LStrip(Tail(s)) ELSE s

RECURSIVE RStrip(_)
RStrip(s) ==
  IF s # <<>> /\ s[Len(s)] \in Whitespace
    THEN RStrip(SubSeq(s, 1, Len(s) - 1))
    ELSE s

\* str.strip()
PyStrip(s) == RStrip(LStrip(s))

RECURSIVE NatStr(_)
NatStr(n) ==
  IF n < 10 THEN <<DigitChars[n + 1]>>
            ELSE NatStr(n \div 10) \o <<DigitChars[(n % 10) + 1]>>

IntStr(n) == IF n < 0 THEN <<"-">> \o NatStr(-n) ELSE NatStr(n)

\* repr of a float whose denominator divides 10 (one fractional digit)
FloatStr(q) ==
  LET a == Abs(q[1])
      ip == a \div q[2]
      fd == ((a % q[2]) * 10) \div q[2]
  IN  (IF q[1] < 0 THEN <<"-">> ELSE <<>>) \o NatStr(ip) \o <<".">> \o NatStr(fd)

\* str(val), line 29
PyStr(val) ==
  CASE val.t = "str" -> val.s
    [] val.t = "int" -> IntStr(val.n)
    [] val.t = "float" -> FloatStr(val.q)
    [] val.t = "nan" -> <<"n","a","n">>
    [] val.t = "bool" -> IF val.b THEN <<"T","r","u","e">> ELSE <<"F","a","l","s","e">>
    [] val.t = "none" -> <<"N","o","n","e">>

(* ------------------------- _to_bool_smoker ----------------------------- *)
Affirmative == { <<"y","e","s">>, <<"y">>, <<"t","r","u","e">>, <<"t">>, <<"1">> }
Negative == { <<"n","o">>, <<"n">>, <<"f","a","l","s","e">>, <<"f">>, <<"0">> }

\* a plausible slip: the value is lower-cased but not stripped
ToBoolSmokerNoStrip(val) ==
  IF val.t = "none" THEN None
  ELSE IF val.t = "bool" THEN val
  ELSE LET s == PyLower(PyStr(val))
       IN  IF s \in Affirmative THEN BoolV(TRUE)
           ELSE IF s \in Negative THEN BoolV(FALSE)
           ELSE None

_to_bool_smoker(val) ==
  IF val.t = "none" THEN None
  ELSE IF val.t = "bool" THEN val
  ELSE LET s == PyLower(PyStrip(PyStr(val)))
       IN  IF s \in Affirmative THEN BoolV(TRUE)
           ELSE IF s \in Negative THEN BoolV(FALSE)
           ELSE None

(* ------------------------------ float() -------------------------------- *)
Failed == [ok |-> FALSE]
Ok(v) == [ok |-> TRUE, v |-> v]

RECURSIVE DigitsVal(_)
DigitsVal(s) ==
  IF s = <<>> THEN 0 ELSE DigitsVal(SubSeq(s, 1, Len(s) - 1)) * 10 + DigitVal(s[Len(s)])

RECURSIVE Pow10(_)
Pow10(k) == IF k = 0 THEN 1 ELSE 10 * Pow10(k - 1)

AllDigits(s) == \A i \in 1..Len(s) : IsDigit(s[i])

\* float(str): surrounding white space is ignored, then an optional sign and
\* either "nan" in any case or decimal digits with at most one point.
\* (Exponents, "inf" and digit-group underscores are outside the inputs.)
ParseFloat(str) ==
  LET s == PyStrip(str)
      signed == s # <<>> /\ s[1] \in {"+", "-"}
      neg == signed /\ s[1] = "-"
      body == IF signed THEN Tail(s) ELSE s
      dots == {i \in 1..Len(body) : body[i] = "."}
  IN  IF PyLower(body) = <<"n","a","n">> THEN Ok(NaN)
      ELSE IF body = <<>> THEN Failed
      ELSE IF dots = {} THEN
        IF AllDigits(body)
          THEN Ok(FloatV((IF neg THEN -1 ELSE 1) * DigitsVal(body), 1))
          ELSE Failed
      ELSE IF Cardinality(dots) > 1 THEN Failed
      ELSE LET p == CHOOSE i \in dots : TRUE
               ip == SubSeq(body, 1, p - 1)
               fp == SubSeq(body, p + 1, Len(body))
           IN  IF AllDigits(ip) /\ AllDigits(fp) /\ Len(ip) + Len(fp) > 0
                 THEN Ok(FloatV((IF neg THEN -1 ELSE 1)
                                 * (DigitsVal(ip) * Pow10(Len(fp)) + DigitsVal(fp)),
                               Pow10(Len(fp))))
                 ELSE Failed

\* a plausible slip: a tip that is not a number counts as 0.0
PyFloatZeroOnFailure(val) ==
  CASE val.t = "float" -> Ok(val)
    [] val.t = "nan" -> Ok(NaN)
    [] val.t = "int" -> Ok(FloatV(val.n, 1))
    [] val.t = "bool" -> Ok(FloatV(IF val.b THEN 1 ELSE 0, 1))
    [] val.t = "str" -> IF ParseFloat(val.s).ok THEN ParseFloat(val.s) ELSE Ok(FloatV(0, 1))
    [] val.t = "none" -> Ok(FloatV(0, 1))

\* float(x) inside the try of lines 62-65 and 90-93: Failed stands for the
\* exception the except clause swallows
PyFloat(val) ==
  CASE val.t = "float" -> Ok(val)
    [] val.t = "nan" -> Ok(NaN)
    [] val.t = "int" -> Ok(FloatV(val.n, 1))
    [] val.t = "bool" -> Ok(FloatV(IF val.b THEN 1 ELSE 0, 1))
    [] val.t = "str" -> ParseFloat(val.s)
    [] val.t = "none" -> Failed

(* ------------------------- float arithmetic ---------------------------- *)
RatAdd(a, b) == Norm(a[1] * b[2] + b[1] * a[2], a[2] * b[2])

RECURSIVE RatSum(_)
RatSum(lst) ==
  IF lst = <<>> THEN <<0, 1>> ELSE RatAdd(Head(lst).q, RatSum(Tail(lst)))

HasNaN(lst) == \E j \in 1..Len(lst) : IsNaN(lst[j])

\* a plausible slip: an incremental average, (avg + x) / 2 at each element
RECURSIVE RunningAvg(_)
RunningAvg(lst) ==
  IF Len(lst) = 1 THEN lst[1].q
  ELSE LET a == RunningAvg(SubSeq(lst, 1, Len(lst) - 1))
           x == lst[Len(lst)].q
       IN  Norm(a[1] * x[2] + x[1] * a[2], 2 * a[2] * x[2])

MeanRunning(lst) ==
  IF HasNaN(lst) THEN NaN
  ELSE LET t == RunningAvg(lst) IN FloatV(t[1], t[2])

\* statistics.mean of a non-empty list of floats: the exact mean, nan as
\* soon as one element is nan
Mean(lst) ==
  IF HasNaN(lst) THEN NaN
  ELSE LET t == RatSum(lst) IN FloatV(t[1], t[2] * Len(lst))

\* a plausible slip: an empty group averages to 0.0
SafeMeanZero(lst) == IF lst # <<>> THEN Mean(lst) ELSE FloatV(0, 1)

\* lines 99-100
safe_mean(lst) == IF lst # <<>> THEN Mean(lst) ELSE None

\* a plausible slip: the operands of the subtraction swapped
PySubReversed(a, b) ==
  IF IsNaN(a) \/ IsNaN(b) THEN NaN
  ELSE FloatV(b.q[1] * a.q[2] - a.q[1] * b.q[2], a.q[2] * b.q[2])

\* a - b on floats (line 109)
PySub(a, b) ==
  IF IsNaN(a) \/ IsNaN(b) THEN NaN
  ELSE FloatV(a.q[1] * b.q[2] - b.q[1] * a.q[2], a.q[2] * b.q[2])

\* line 109
Difference(avg_smoker, avg_non) ==
  IF ~IsNone(avg_smoker) /\ ~IsNone(avg_non) THEN PySub(avg_smoker, avg_non) ELSE None

\* lines 102-110: the summary of the two tip lists
Summary(ts, tn) ==
  LET avg_smoker == safe_mean(ts)
      avg_non == safe_mean(tn)
  IN  [n_smoker |-> Len(ts),
       n_non_smoker |-> Len(tn),
       avg_tip_smoker |-> avg_smoker,
       avg_tip_non_smoker |-> avg_non,
       difference |-> Difference(avg_smoker, avg_non)]

(* ----------------------------- records --------------------------------- *)
\* a plausible slip: `rec.get(key) or default`, which falls through to the
\* default when the key is present with the value None
DictGetOr(m, key, default) ==
  IF key \in DOMAIN m /\ ~IsNone(m[key]) THEN m[key] ELSE default

\* dict.get(key, default)
DictGet(m, key, default) == IF key \in DOMAIN m THEN m[key] ELSE default

\* the kinds of element an iterable can hold:
\*   "dict"   a dict;
\*   "pairs"  no __getitem__, but dict(rec) succeeds (an iterable of pairs);
\*   "scalar" no __getitem__ and dict(rec) raises (a number, None);
\*   "seq"    __getitem__ without .get and without string keys (str, tuple, list)
Dict(m) == [k |-> "dict", m |-> m]
Pairs(m) == [k |-> "pairs", m |-> m]
Scalar == [k |-> "scalar"]
SeqRec == [k |-> "seq"]

Skip == [grp |-> "skip"]
Routed(s, tip) ==
  IF s = BoolV(TRUE) THEN [grp |-> "smoker", tip |-> tip]
  ELSE IF s = BoolV(FALSE) THEN [grp |-> "non", tip |-> tip]
  ELSE Skip

\* a plausible slip: `else` instead of `elif s is False`
RoutedElse(s, tip) ==
  IF s = BoolV(TRUE) THEN [grp |-> "smoker", tip |-> tip]
  ELSE [grp |-> "non", tip |-> tip]

\* lines 79-87: the smoker value of one element
SmokerVal(rec) ==
  IF rec.k = "seq" THEN None
  ELSE DictGet(rec.m, "smoker", DictGet(rec.m, "Smoker", None))

\* lines 90-93: the tip of one element, Failed when the try block raises
TipOf(rec) ==
  IF rec.k = "seq" THEN Failed
  ELSE PyFloat(DictGet(rec.m, "tip", DictGet(rec.m, "Tip", None)))

\* a plausible slip: the unrecognised flag routed to the non-smokers
IterRouteElse(rec) ==
  IF rec.k = "scalar" THEN Skip
  ELSE LET tip == TipOf(rec)
       IN  IF ~tip.ok THEN Skip
           ELSE RoutedElse(_to_bool_smoker(SmokerVal(rec)), tip.v)

\* lines 72-97: one iteration of the loop over an iterable
IterRoute(rec) ==
  IF rec.k = "scalar" THEN Skip
  ELSE LET tip == TipOf(rec)
       IN  IF ~tip.ok THEN Skip
           ELSE Routed(_to_bool_smoker(SmokerVal(rec)), tip.v)

\* lines 60-69: one iteration of the loop over the rows of a DataFrame
DfRoute(row) ==
  LET tip == PyFloat(row["tip"])
  IN  IF ~tip.ok THEN Skip
      ELSE Routed(_to_bool_smoker(row["smoker"]), tip.v)

TipsOf(routes, g) ==
  LET sel == SelectSeq(routes, LAMBDA r : r.grp = g)
  IN  [j \in 1..Len(sel) |-> sel[j].tip]

\* a plausible slip: the message names one column only
ColumnsErrorTipOnly == [exc |-> "ValueError", names |-> {"tip"}]

\* line 59: the ValueError, with the column names its message contains
ColumnsError == [exc |-> "ValueError", names |-> {"tip", "smoker"}]

\* line 58
MissingColumns(cols) == {"tip", "smoker"} \ cols

\* lines 52-110 as a function of the input: the summary, or the error raised
compare_avg_tip_by_smoker(input) ==
  IF input.kind = "table" /\ MissingColumns(input.cols) # {}
    THEN ColumnsError
    ELSE LET routes == [j \in 1..Len(input.rows) |->
                          IF input.kind = "table" THEN DfRoute(input.rows[j])
                                                  ELSE IterRoute(input.rows[j])]
         IN  Summary(TipsOf(routes, "smoker"), TipsOf(routes, "non"))

(* ------------------------------ inputs --------------------------------- *)
sYes == <<"Y","e","s">>
sNo == <<"N","o">>
sNoPadded == <<" ","n","O","\t">>
sMaybe == <<"M","a","y","b","e">>
sAbc == <<"a","b","c">>
sFour == <<" ","4">>

Rec2(k1, v1, k2, v2) == (k1 :> v1) @@ (k2 :> v2)
Rec3(k1, v1, k2, v2, k3, v3) == (k1 :> v1) @@ (k2 :> v2) @@ (k3 :> v3)

\* the elements the iterables are built from
IterRecs ==
  { Dict(Rec2("tip", StrV(sFour), "smoker", StrV(sYes))),
    Dict(Rec2("tip", IntV(-1), "smoker", StrV(sNoPadded))),
    Dict(Rec2("tip", StrV(sAbc), "smoker", StrV(sYes))),
    Dict(Rec2("tip", NaN, "smoker", StrV(sYes))),
    Dict(Rec2("Tip", FloatV(5, 2), "Smoker", IntV(0))),
    Dict(Rec3("tip", None, "Tip", FloatV(2, 1), "smoker", StrV(sYes))),
    Dict(Rec3("tip", FloatV(2, 1), "smoker", StrV(sMaybe), "Smoker", StrV(sYes))),
    Dict("smoker" :> StrV(sYes)),
    Pairs(Rec2("tip", FloatV(3, 1), "smoker", BoolV(TRUE))),
    Scalar,
    SeqRec }

\* the rows the tables are built from, restricted to the table's columns
TableRows ==
  { Rec3("tip", FloatV(3, 1), "smoker", StrV(sYes), "Tip", FloatV(1, 1)),
    Rec3("tip", FloatV(5, 2), "smoker", BoolV(FALSE), "Tip", FloatV(1, 1)),
    Rec3("tip", NaN, "smoker", StrV(sNo), "Tip", FloatV(1, 1)),
    Rec3("tip", StrV(sAbc), "smoker", NaN, "Tip", FloatV(1, 1)) }

TableColumns == { {"tip", "smoker"}, {"tip", "smoker", "Tip"}, {"tip"}, {"smoker"},
                  {"Tip"} }

SeqsUpTo(S, n) == UNION { [1..k -> S] : k \in 0..n }

Restrict(r, cols) == [c \in cols |-> r[c]]

Iterable(rows) == [kind |-> "iter", cols |-> {}, rows |-> rows]
Table(cols, rows) == [kind |-> "table", cols |-> cols, rows |-> rows]

\* lines 129-135
sample ==
  Iterable(<< Dict(Rec2("tip", FloatV(3, 1), "smoker", StrV(sNo))),
              Dict(Rec2("tip", FloatV(5, 1), "smoker", StrV(sYes))),
              Dict(Rec2("tip", FloatV(5, 2), "smoker", StrV(sNo))),
              Dict(Rec2("tip", FloatV(4, 1), "smoker", StrV(sYes))),
              Dict(Rec2("tip", FloatV(7, 2), "smoker", StrV(sNo))) >>)

Inputs ==
  { Iterable(r) : r \in SeqsUpTo(IterRecs, MaxLen) }
  \cup { sample }
  \cup { Table(c, [j \in 1..Len(b) |-> Restrict(b[j], c)]) :
           c \in TableColumns, b \in SeqsUpTo(TableRows, MaxLen) }

(* --------------------------- the program ------------------------------- *)
VARIABLES records, do_ttest, pc, i, tips_smoker, tips_non, smoker_val, s,
          result, error, scipy, ttest_called

vars == <<records, do_ttest, pc, i, tips_smoker, tips_non, smoker_val, s,
          result, error, scipy, ttest_called>>

\* float(pval) of line 117; its numeric value is not modelled
PValue == [t |-> "pvalue"]

Unset == [t |-> "unset"]

Init ==
  /\ records \in Inputs
  /\ do_ttest \in BOOLEAN
  /\ pc = "entry"
  /\ i = 1
  /\ tips_smoker = <<>>
  /\ tips_non = <<>>
  /\ smoker_val = Unset
  /\ s = Unset
  /\ result = Unset
  /\ error = Unset
  /\ scipy = "unset"
  /\ ttest_called = FALSE

\* lines 52-59 and 72: the lists are created, a DataFrame without the two
\* columns raises, otherwise the loop over the rows or the elements starts
Dispatch ==
  /\ pc = "entry"
  /\ IF records.kind = "table" /\ MissingColumns(records.cols) # {}
       THEN /\ pc' = "raised"
            /\ error' = ColumnsError
       ELSE /\ pc' = IF records.rows = <<>> THEN "summary"
                     ELSE IF records.kind = "table" THEN "df_rows" ELSE "records"
            /\ error' = error
  /\ UNCHANGED <<records, do_ttest, i, tips_smoker, tips_non, smoker_val, s,
                 result, scipy, ttest_called>>

Append2(r) ==
  /\ tips_smoker' = IF r.grp = "smoker" THEN Append(tips_smoker, r.tip) ELSE tips_smoker
  /\ tips_non' = IF r.grp = "non" THEN Append(tips_non, r.tip) ELSE tips_non
  /\ i' = i + 1
  /\ pc' = IF i = Len(records.rows) THEN "summary" ELSE pc

\* lines 60-69
DfRow ==
  /\ pc = "df_rows"
  /\ LET row == records.rows[i]
     IN  /\ smoker_val' = row["smoker"]
         /\ s' = _to_bool_smoker(row["smoker"])
         /\ Append2(DfRoute(row))
  /\ UNCHANGED <<records, do_ttest, result, error, scipy, ttest_called>>

\* lines 72-97
IterRecord ==
  /\ pc = "records"
  /\ LET rec == records.rows[i]
     IN  /\ IF rec.k = "scalar"
              THEN UNCHANGED <<smoker_val, s>>
              ELSE /\ smoker_val' = SmokerVal(rec)
                   /\ s' = _to_bool_smoker(SmokerVal(rec))
         /\ Append2(IterRoute(rec))
  /\ UNCHANGED <<records, do_ttest, result, error, scipy, ttest_called>>

\* lines 99-110, and the return of line 124 when no test is asked for
Summarize ==
  /\ pc = "summary"
  /\ result' = Summary(tips_smoker, tips_non)
  /\ pc' = IF do_ttest THEN "ttest" ELSE "done"
  /\ UNCHANGED <<records, do_ttest, i, tips_smoker, tips_non, smoker_val, s,
                 error, scipy, ttest_called>>

\* line 115
TTestGuard(ts, tn) == ts # <<>> /\ tn # <<>>

\* a plausible slip: the exception of a missing or failing scipy leaves the
\* p-value at a number
PValueOfFailureZero(lib, called) ==
  IF lib = "ok" /\ called THEN PValue
  ELSE IF lib # "ok" THEN FloatV(0, 1)
  ELSE None

\* lines 113-122: the value stored under ttest_pvalue
PValueOf(lib, called) == IF lib = "ok" /\ called THEN PValue ELSE None

\* lines 112-124: scipy is missing (the import raises), works, or is broken
\* (ttest_ind raises)
TTest ==
  /\ pc = "ttest"
  /\ \E lib \in {"missing", "ok", "broken"} :
       /\ scipy' = lib
       /\ ttest_called' = (lib # "missing" /\ TTestGuard(tips_smoker, tips_non))
       /\ result' = result @@ ("ttest_pvalue" :> PValueOf(lib, ttest_called'))
  /\ pc' = "done"
  /\ UNCHANGED <<records, do_ttest, i, tips_smoker, tips_non, smoker_val, s, error>>

Next == Dispatch \/ DfRow \/ IterRecord \/ Summarize \/ TTest

Spec == Init /\ [][Next]_vars

(* ----------------- the normalisation on its own ------------------------ *)
UpperChar(c) ==
  IF \E j \in 1..26 : LowerChars[j] = c
    THEN UpperChars[CHOOSE j \in 1..26 : LowerChars[j] = c]
    ELSE c

RECURSIVE CaseVariants(_)
CaseVariants(tok) ==
  IF tok = <<>> THEN { <<>> }
  ELSE { <<c>> \o r : c \in {Head(tok), UpperChar(Head(tok))},
                      r \in CaseVariants(Tail(tok)) }

WsSeqs == SeqsUpTo(Whitespace, MaxPad)

\* every spelling of the tokens: any letter case, white space around
Forms(toks) ==
  { pre \o v \o post : pre \in WsSeqs, post \in WsSeqs,
                       v \in UNION { CaseVariants(tok) : tok \in toks } }

OtherStrings ==
  { <<>>, <<" ">>, sMaybe, sAbc, <<"y","e"," ","s">>, <<"y","e","s","s">>,
    <<"n","o","p","e">>, <<"1","0">>, <<"1",".","0">>, <<"0","0">>, <<"o","n">>,
    <<"T","r","u">>, <<"N","o","n","e">>, <<"n","a","n">>, <<"-","1">>, <<"+","1">> }

RawVals ==
  { None, NaN, BoolV(TRUE), BoolV(FALSE) }
  \cup { IntV(n) : n \in -1..2 }
  \cup { FloatV(0, 1), FloatV(1, 1), FloatV(5, 2), FloatV(-1, 1) }
  \cup { StrV(x) : x \in Forms(Affirmative \cup Negative) \cup OtherStrings }

InitNorm ==
  /\ records = Iterable(<<>>)
  /\ do_ttest = FALSE
  /\ pc = "norm"
  /\ i = 1
  /\ tips_smoker = <<>>
  /\ tips_non = <<>>
  /\ smoker_val \in RawVals
  /\ s = Unset
  /\ result = Unset
  /\ error = Unset
  /\ scipy = "unset"
  /\ ttest_called = FALSE

\* lines 24-34 applied to one value
Normalize ==
  /\ pc = "norm"
  /\ s' = _to_bool_smoker(smoker_val)
  /\ pc' = "normed"
  /\ UNCHANGED <<records, do_ttest, i, tips_smoker, tips_non, smoker_val,
                 result, error, scipy, ttest_called>>

NextNorm == Normalize

SpecNorm == InitNorm /\ [][NextNorm]_vars

(* ------------------------------ claims --------------------------------- *)
Done == pc = "done"
CoreKeys == {"n_smoker", "n_non_smoker", "avg_tip_smoker", "avg_tip_non_smoker",
             "difference"}
Core(r) == [k \in CoreKeys |-> r[k]]
Recognised(v) == _to_bool_smoker(v) \in {BoolV(TRUE), BoolV(FALSE)}
Coercible(v) ==
  \/ v.t \in {"float", "nan", "int", "bool"}
  \/ v.t = "str" /\ ParseFloat(v.s).ok
HasKey(rec, k) == rec.k \in {"dict", "pairs"} /\ k \in DOMAIN rec.m

\* the value a mapping exposes for a field: the lowercase key when present,
\* else the capitalised key, else nothing
Exposed(rec, low, cap) ==
  IF HasKey(rec, low) THEN rec.m[low]
  ELSE IF HasKey(rec, cap) THEN rec.m[cap]
  ELSE None

\* element j of the input has a recognised smoker flag and a tip coercible
\* to a number
WellFormed(j) ==
  LET r == records.rows[j]
  IN  IF records.kind = "table"
        THEN Recognised(r["smoker"]) /\ Coercible(r["tip"])
        ELSE /\ r.k \in {"dict", "pairs"}
             /\ Recognised(Exposed(r, "smoker", "Smoker"))
             /\ Coercible(Exposed(r, "tip", "Tip"))

Schematic == records.kind = "iter" \/ {"tip", "smoker"} \subseteq records.cols

\* C1: every record is routed to exactly one group when it has a recognised
\* smoker flag and a coercible tip and to none otherwise, so that
\* n_smoker + n_non_smoker <= number of records, with equality iff no record
\* was skipped
C1_OneGroupPerRecord ==
  /\ pc \in {"df_rows", "records", "summary", "ttest", "done"} =>
       Len(tips_smoker) + Len(tips_non)
         = Cardinality({ j \in 1..(i - 1) : WellFormed(j) })
  /\ Done =>
       /\ result.n_smoker = Len(tips_smoker)
       /\ result.n_non_smoker = Len(tips_non)
       /\ result.n_smoker + result.n_non_smoker <= Len(records.rows)
       /\ (result.n_smoker + result.n_non_smoker = Len(records.rows))
            <=> (\A j \in 1..Len(records.rows) : WellFormed(j))

C1_Witness ==
  /\ Done
  /\ records.kind = "iter"
  /\ Len(records.rows) = 3
  /\ result.n_smoker = 1
  /\ result.n_non_smoker = 1

\* C2 as stated: booleans pass through, strings are trimmed and lower-cased
\* and matched against the two token sets, and anything else, every
\* non-boolean non-string value included, is Unknown
C2_AsStated ==
  pc = "normed" =>
    /\ smoker_val.t = "bool" => s = smoker_val
    /\ smoker_val.t = "str" =>
         s = (IF smoker_val.s \in Forms(Affirmative) THEN BoolV(TRUE)
              ELSE IF smoker_val.s \in Forms(Negative) THEN BoolV(FALSE)
              ELSE None)
    /\ smoker_val.t \notin {"bool", "str"} => s = None

\* C2 (amended): booleans pass through; None is Unknown; a string, in any
\* letter case and with white space around, maps to True for yes/y/true/t/1,
\* to False for no/n/false/f/0 and to Unknown otherwise; any other value is
\* matched through its string form, so the integer 1 is True, the integer 0
\* is False, and other numbers are Unknown
C2_Normalisation ==
  pc = "normed" =>
    /\ s \in {None, BoolV(TRUE), BoolV(FALSE)}
    /\ smoker_val.t = "bool" => s = smoker_val
    /\ smoker_val.t = "none" => s = None
    /\ smoker_val.t = "str" =>
         s = (IF smoker_val.s \in Forms(Affirmative) THEN BoolV(TRUE)
              ELSE IF smoker_val.s \in Forms(Negative) THEN BoolV(FALSE)
              ELSE None)
    /\ smoker_val.t = "int" =>
         s = (IF smoker_val.n = 1 THEN BoolV(TRUE)
              ELSE IF smoker_val.n = 0 THEN BoolV(FALSE)
              ELSE None)
    /\ smoker_val.t \in {"float", "nan"} => s = None

C2_Witness ==
  /\ pc = "normed"
  /\ smoker_val = StrV(<<"\t","Y","e","S"," ">>)
  /\ s = BoolV(TRUE)


Kept(rows) == SelectSeq(rows, LAMBDA r :
  IF records.kind = "table"
    THEN Recognised(r["smoker"]) /\ Coercible(r["tip"])
    ELSE /\ r.k \in {"dict", "pairs"}
         /\ Recognised(Exposed(r, "smoker", "Smoker"))
         /\ Coercible(Exposed(r, "tip", "Tip")))

TestNotComputed ==
  \/ ~do_ttest
  \/ scipy # "ok"
  \/ tips_smoker = <<>>
  \/ tips_non = <<>>

\* C4 as stated: whenever the test is not computed, the case of do_ttest
\* false included, the summary carries ttest_pvalue = None
C4_AsStated ==
  Done =>
    /\ TestNotComputed =>
         "ttest_pvalue" \in DOMAIN result /\ result["ttest_pvalue"] = None
    /\ ~TestNotComputed => result["ttest_pvalue"] = PValue

\* C4 (amended): when do_ttest is false the summary has no ttest_pvalue key;
\* when do_ttest is true and the test is not computed (scipy missing, the
\* call failing, or a group empty) ttest_pvalue is None and nothing is
\* raised; a numeric p-value is attached only when the test was requested,
\* scipy works and both groups are non-empty
C4_PValue ==
  Done =>
    /\ error = Unset
    /\ ~do_ttest => "ttest_pvalue" \notin DOMAIN result
    /\ do_ttest =>
         /\ "ttest_pvalue" \in DOMAIN result
         /\ result["ttest_pvalue"] = (IF TestNotComputed THEN None ELSE PValue)

C4_Witness ==
  /\ Done
  /\ do_ttest
  /\ scipy = "missing"
  /\ tips_smoker # <<>>
  /\ tips_non # <<>>
  /\ result["ttest_pvalue"] = None

\* C5: an empty group has mean None, the difference is then None, and no
\* test is attempted (a requested p-value is None)
C5_EmptyGroup ==
  Done =>
    /\ tips_smoker = <<>> => result.avg_tip_smoker = None
    /\ tips_non = <<>> => result.avg_tip_non_smoker = None
    /\ (tips_smoker = <<>> \/ tips_non = <<>>) =>
         /\ result.difference = None
         /\ ~ttest_called
         /\ do_ttest => result["ttest_pvalue"] = None

C5_Witness ==
  /\ Done
  /\ do_ttest
  /\ scipy = "ok"
  /\ Len(tips_smoker) = 2
  /\ tips_non = <<>>
  /\ result.avg_tip_smoker # None

\* C6: a table lacking `tip` or `smoker` raises a ValueError whose message
\* names the missing column(s), before any row is processed and without a
\* summary
C6_SchemaError ==
  (records.kind = "table" /\ {"tip", "smoker"} \ records.cols # {}) =>
    /\ pc \in {"entry", "raised"}
    /\ result = Unset
    /\ tips_smoker = <<>> /\ tips_non = <<>> /\ i = 1 /\ smoker_val = Unset
    /\ pc = "raised" =>
         /\ error.exc = "ValueError"
         /\ ({"tip", "smoker"} \ records.cols) \subseteq error.names

C6_Witness ==
  /\ pc = "raised"
  /\ records.kind = "table"
  /\ records.cols = {"tip"}
  /\ Len(records.rows) = 2
  /\ "smoker" \in error.names

\* C7: the difference is defined exactly when both means are, and is then
\* the smoker mean minus the non-smoker mean, unrounded
C7_Difference ==
  Done =>
    LET a == result.avg_tip_smoker
        b == result.avg_tip_non_smoker
        d == result.difference
    IN  /\ IsNone(d) <=> (IsNone(a) \/ IsNone(b))
        /\ (IsNum(a) /\ IsNum(b)) =>
             /\ IsNum(d)
             /\ d.q[1] * a.q[2] * b.q[2] = (a.q[1] * b.q[2] - b.q[1] * a.q[2]) * d.q[2]
        /\ (~IsNone(a) /\ ~IsNone(b) /\ (IsNaN(a) \/ IsNaN(b))) => IsNaN(d)

C7_Witness ==
  /\ Done
  /\ records = sample
  /\ result.difference = FloatV(3, 2)

RatLe(a, b) == a[1] * b[2] <= b[1] * a[2]

GroupMeanOK(tips, m) ==
  tips # <<>> =>
    /\ IsNum(m)
    /\ \A j \in 1..Len(tips) : IsNum(tips[j])
    /\ m.q[1] * RatSum(tips)[2] * Len(tips) = RatSum(tips)[1] * m.q[2]
    /\ \E j \in 1..Len(tips) : RatLe(tips[j].q, m.q)
    /\ \E j \in 1..Len(tips) : RatLe(m.q, tips[j].q)

\* C8: the mean of a non-empty group is the arithmetic mean of the tips
\* routed to it and lies within [min, max] of them; the sample of __main__
\* gives 3 and 2 records, means 3.0 and 4.5, difference 1.5
C8_GroupMean ==
  Done =>
    /\ GroupMeanOK(tips_smoker, result.avg_tip_smoker)
    /\ GroupMeanOK(tips_non, result.avg_tip_non_smoker)
    /\ records = sample =>
         Core(result) = [n_smoker |-> 2, n_non_smoker |-> 3,
                         avg_tip_smoker |-> FloatV(9, 2),
                         avg_tip_non_smoker |-> FloatV(3, 1),
                         difference |-> FloatV(3, 2)]

\* the permutations of the set S, as sequences
RECURSIVE PermsOf(_)
PermsOf(S) ==
  IF S = {} THEN { <<>> }
  ELSE UNION { { <<x>> \o q : q \in PermsOf(S \ {x}) } : x \in S }

\* C9: the counts, means and difference are the same for every permutation
\* of the input
C9_OrderIndependent ==
  Done =>
    \A p \in PermsOf(1..Len(records.rows)) :
      compare_avg_tip_by_smoker(
        [records EXCEPT !.rows = [j \in 1..Len(records.rows) |-> records.rows[p[j]]]])
        = Core(result)

C9_Witness ==
  /\ Done
  /\ Len(tips_non) >= 2
  /\ tips_non[1] # tips_non[2]
  /\ Len(tips_smoker) >= 1
  /\ IsNum(result.difference)

\* the record with each field moved to its lowercase key: the capitalised
\* key is dropped, and supplies the value only when the lowercase key is absent
Lowercased(rec) ==
  IF rec.k \notin {"dict", "pairs"} THEN rec
  ELSE LET m == rec.m
           keys == { k \in {"tip", "smoker"} :
                       k \in DOMAIN m \/ (IF k = "tip" THEN "Tip" ELSE "Smoker") \in DOMAIN m }
       IN  [rec EXCEPT !.m =
              [k \in keys |-> IF k \in DOMAIN m THEN m[k]
                              ELSE m[IF k = "tip" THEN "Tip" ELSE "Smoker"]]]

\* C10: for iterable input each field is taken from the lowercase key when
\* the record has it, whatever its value, and from the capitalised key only
\* otherwise; a record with only Tip/Smoker counts as the same record with
\* tip/smoker
C10_KeyFallback ==
  /\ (records.kind = "iter" /\ i > 1 /\ pc \in {"records", "summary"}
        /\ records.rows[i - 1].k \in {"dict", "pairs"}) =>
       smoker_val = Exposed(records.rows[i - 1], "smoker", "Smoker")
  /\ (Done /\ records.kind = "iter") =>
       Core(result)
         = compare_avg_tip_by_smoker(
             Iterable([j \in 1..Len(records.rows) |-> Lowercased(records.rows[j])]))

C10_Witness ==
  /\ Done
  /\ records.kind = "iter"
  /\ Len(records.rows) = 3
  /\ \E j \in 1..3 : /\ HasKey(records.rows[j], "Tip")
                     /\ HasKey(records.rows[j], "Smoker")
                     /\ ~HasKey(records.rows[j], "tip")
  /\ \E j \in 1..3 : /\ HasKey(records.rows[j], "Tip")
                     /\ HasKey(records.rows[j], "tip")
  /\ result.n_non_smoker = 1
  /\ result.n_smoker = 0

====
